---- MODULE Spec2Model ----
(***************************************************************************)
(* Model of websiteChecker.py: one run of main (argument check, page GET,  *)
(* extraction of href/src values, report, optional stats, optional save,   *)
(* optional resource samples), plus the pure functions count_links,        *)
(* count_images and save_to_file exercised on their own.                   *)
(*                                                                         *)
(* Text is modelled as a sequence of chunks, one per print()/file.write()  *)
(* call; a page body is modelled by the sequence of tags it contains, the  *)
(* empty body being the empty sequence.  Exceptions the code does not      *)
(* catch (file-system errors, psutil errors, a src that urljoin rejects)   *)
(* end the process and are outside the model.                              *)
(***************************************************************************)
EXTENDS Integers, Sequences, FiniteSets, TLC

VARIABLES
    argv,           \* the flags as supplied on the command line
    args,           \* the argparse namespace (args.link may be defaulted)
    pc,             \* position of the run in main / save_to_file
    response,       \* outcome of requests.get
    page_content,   \* value returned by fetch_page
    count,          \* main's local: count
    details,        \* main's local: details
    branch,         \* the branches of main's if/elif that have executed
    idx,            \* position of the for loop over details (1-based)
    headLog,        \* outcomes of the HEAD requests issued so far
    out,            \* standard output, a sequence of chunks
    http,           \* HTTP requests issued so far
    trace,          \* the steps of the run, in order
    file,           \* the destination file of --save
    file0,          \* the destination file as it was before the run
    sv,             \* the frame of save_to_file
    calls,          \* number of calls of save_to_file
    snap            \* file content left by the previous call of save_to_file

vars == <<argv, args, pc, response, page_content, count, details, branch, idx,
          headLog, out, http, trace, file, file0, sv, calls, snap>>

--------------------------------------------------------------------------
(* Bounds *)

MaxDoc == 2
MaxCount == 2
MaxCalls == 2

--------------------------------------------------------------------------
(* Input domains *)

Tags == {"a", "img", "p"}
AttrNames == {"href", "src"}
Vals == {"/a", "/b"}
NoAttr == "none"

Elements ==
    [tag : Tags, attr : AttrNames, val : Vals]
        \cup [tag : Tags, attr : {NoAttr}, val : {""}]

Docs == UNION {[1..n -> Elements] : n \in 0..MaxDoc}

DetailLists == UNION {[1..n -> Vals] : n \in 0..MaxDoc}

LinkLabel == "clickable links"
ImageLabel == "images"
Labels == {LinkLabel, ImageLabel}

PageUrl == [origin |-> "http://x.test", path |-> "/"]
NoUrl == [origin |-> "", path |-> ""]

SaveValues == {"None", "", "out.txt"}

Argv ==
    [url : {PageUrl}, link : BOOLEAN, picture : BOOLEAN, save : SaveValues,
     detailed : BOOLEAN, stats : BOOLEAN, ressources : BOOLEAN]

NoResponse == [kind |-> "none", status |-> 0, body |-> <<>>]

GetOutcomes ==
    {[kind |-> "error", status |-> 0, body |-> <<>>]}
        \cup [kind : {"response"}, status : {200}, body : Docs]
        \cup [kind : {"response"}, status : {404},
              body : {d \in Docs : Len(d) = 0 \/ (Len(d) = 1 /\ d[1].attr = NoAttr)}]

HeadOutcomes == {"length", "no_length", "error"}

NoFile == [exists |-> FALSE, content |-> <<>>]

--------------------------------------------------------------------------
(* Text chunks: one per print() or file.write() call *)

Chunk(kind) ==
    [kind |-> kind, type |-> "", n |-> 0, text |-> "", url |-> NoUrl, urls |-> {}]

CountLine(type_, n) == [Chunk("count") EXCEPT !.type = type_, !.n = n]

DetailsHeader == Chunk("details_header")

EntryLine(i, detail) == [Chunk("entry") EXCEPT !.n = i, !.text = detail]

ConflictLine == Chunk("conflict")

FetchErrorLine(e) == [Chunk("fetch_error") EXCEPT !.text = e]

SavedLine(filename) == [Chunk("saved") EXCEPT !.text = filename]

LabelLine(text) == [Chunk("label") EXCEPT !.text = text]

ResourcesBlock == Chunk("resources")

ElapsedLine == Chunk("elapsed")

UniqueLinksLine(urls) == [Chunk("unique_links") EXCEPT !.urls = urls]

ImageSizeLine(url, size) == [Chunk("image_size") EXCEPT !.url = url, !.text = size]

ImageErrorLine(img, e) == [Chunk("image_error") EXCEPT !.text = img]

StaleContent == <<Chunk("stale")>>

--------------------------------------------------------------------------
(* Pure functions *)

\* urllib.parse.urljoin for an absolute-path or empty reference
urljoin(base, ref) ==
    IF ref = "" THEN base ELSE [origin |-> base.origin, path |-> ref]

\* find_all without the attribute filter
find_all_AnyAttr(soup, tag, attr) ==
    SelectSeq(soup, LAMBDA e : e.tag = tag)

\* soup.find_all(tag, attr=True)
find_all(soup, tag, attr) ==
    SelectSeq(soup, LAMBDA e : e.tag = tag /\ e.attr = attr)

count_links(soup) ==
    LET links == find_all(soup, "a", "href")
    IN  <<Len(links), [i \in 1..Len(links) |-> links[i].val]>>

count_images(soup) ==
    LET images == find_all(soup, "img", "src")
    IN  <<Len(images), [i \in 1..Len(images) |-> images[i].val]>>

\* the chunks display_statistics prints
display_statistics(count_, details_, type_) ==
    <<CountLine(type_, count_)>> \o
        (IF details_ # <<>>
            THEN <<DetailsHeader>> \o
                 [i \in 1..Len(details_) |-> EntryLine(i, details_[i])]
            ELSE <<>>)

\* the chunks print_system_resources prints
print_system_resources == <<ResourcesBlock>>

\* the exception text of a failed GET
ErrorText(r) ==
    IF r.kind = "error" THEN "ConnectionError" ELSE "404 Client Error"

\* requests.get raised, or raise_for_status raised
GetRaises(r) == r.kind = "error" \/ r.status >= 400

\* fetch_page: the value returned and the chunks printed
fetch_page(r) ==
    IF GetRaises(r)
        THEN [ret |-> [none |-> TRUE, text |-> <<>>],
              printed |-> <<FetchErrorLine(ErrorText(r))>>]
        ELSE [ret |-> [none |-> FALSE, text |-> r.body], printed |-> <<>>]

\* a test that takes the early exit on the empty string only
NotPageContent_OnlyEmpty(p) == ~p.none /\ p.text = <<>>

\* Python's "not page_content": None and the empty string are both falsy
NotPageContent(p) == p.none \/ p.text = <<>>

\* Python's truth value of args.save: None and "" are falsy
SaveRequested(a) == a.save # "None" /\ a.save # ""

\* the two labels swapped
TypeLabel_Swapped(a) == IF a.link THEN ImageLabel ELSE LinkLabel

\* 'clickable links' if args.link else 'images'
TypeLabel(a) == IF a.link THEN LinkLabel ELSE ImageLabel

NoFrame ==
    [filename |-> "", count |-> 0, details |-> <<>>, type_ |-> "",
     i |-> 0, open |-> FALSE, ret |-> ""]

--------------------------------------------------------------------------
(* One run of main *)

Init ==
    /\ argv \in Argv
    /\ args = argv
    /\ pc = "start"
    /\ response = NoResponse
    /\ page_content = [none |-> TRUE, text |-> <<>>]
    /\ count = 0
    /\ details = <<>>
    /\ branch = <<>>
    /\ idx = 0
    /\ headLog = <<>>
    /\ out = <<>>
    /\ http = <<>>
    /\ trace = <<>>
    /\ file \in {NoFile, [exists |-> TRUE, content |-> StaleContent]}
    /\ file0 = file
    /\ sv = NoFrame
    /\ calls = 0
    /\ snap = <<>>

\* the conflict check without its return
CheckMode_NoReturn ==
    /\ pc = "start"
    /\ out' = IF args.link /\ args.picture THEN Append(out, ConflictLine) ELSE out
    /\ args' = IF ~args.link /\ ~args.picture
                  THEN [args EXCEPT !.link = TRUE]
                  ELSE args
    /\ pc' = "before"
    /\ UNCHANGED <<argv, response, page_content, count, details, branch, idx,
                   headLog, http, trace, file, file0, sv, calls, snap>>

\* main, lines 90-95: the conflict check and the default mode
CheckMode ==
    /\ pc = "start"
    /\ IF args.link /\ args.picture
          THEN /\ out' = Append(out, ConflictLine)
               /\ pc' = "done"
               /\ args' = args
          ELSE /\ args' = IF ~args.link /\ ~args.picture
                             THEN [args EXCEPT !.link = TRUE]
                             ELSE args
               /\ pc' = "before"
               /\ out' = out
    /\ UNCHANGED <<argv, response, page_content, count, details, branch, idx,
                   headLog, http, trace, file, file0, sv, calls, snap>>

\* main, lines 97-100: the sample before the fetch
SampleBefore ==
    /\ pc = "before"
    /\ IF args.ressources
          THEN /\ out' = out \o <<LabelLine("Before fetching the page:")>>
                             \o print_system_resources
               /\ trace' = Append(trace, "sample")
          ELSE UNCHANGED <<out, trace>>
    /\ pc' = "fetch"
    /\ UNCHANGED <<argv, args, response, page_content, count, details, branch,
                   idx, headLog, http, file, file0, sv, calls, snap>>

\* main, lines 102-104: fetch_page and the early exit
FetchPage ==
    /\ pc = "fetch"
    /\ \E r \in GetOutcomes :
          LET f == fetch_page(r)
          IN  /\ response' = r
              /\ http' = Append(http, [method |-> "GET", url |-> args.url])
              /\ trace' = Append(trace, "GET")
              /\ page_content' = f.ret
              /\ out' = out \o f.printed
              /\ pc' = IF NotPageContent(f.ret) THEN "done" ELSE "after"
    /\ UNCHANGED <<argv, args, count, details, branch, idx, headLog, file,
                   file0, sv, calls, snap>>

\* main, lines 106-109: the sample after the fetch and the elapsed time
SampleAfter ==
    /\ pc = "after"
    /\ IF args.ressources
          THEN /\ out' = out \o <<LabelLine("After fetching the page:")>>
                             \o print_system_resources \o <<ElapsedLine>>
               /\ trace' = Append(trace, "sample")
          ELSE UNCHANGED <<out, trace>>
    /\ pc' = "extract"
    /\ UNCHANGED <<argv, args, response, page_content, count, details, branch,
                   idx, headLog, http, file, file0, sv, calls, snap>>

\* main, lines 113-121: the link branch
LinkBranch ==
    /\ pc = "extract"
    /\ args.link
    /\ LET r == count_links(page_content.text)
           report == IF ~args.detailed
                        THEN <<CountLine(LinkLabel, r[1])>>
                        ELSE display_statistics(r[1], r[2], LinkLabel)
           unique_links == {urljoin(args.url, r[2][k]) : k \in 1..Len(r[2])}
       IN  /\ count' = r[1]
           /\ details' = r[2]
           /\ out' = out \o report \o
                        (IF args.stats THEN <<UniqueLinksLine(unique_links)>>
                                       ELSE <<>>)
           /\ trace' = trace \o <<"extract", "report">> \o
                        (IF args.stats THEN <<"stats">> ELSE <<>>)
    /\ branch' = Append(branch, LinkLabel)
    /\ pc' = "save"
    /\ UNCHANGED <<argv, args, response, page_content, idx, headLog, http,
                   file, file0, sv, calls, snap>>

\* main, lines 123-129: the image branch up to the for loop
PictureBranch ==
    /\ pc = "extract"
    /\ ~args.link
    /\ args.picture
    /\ LET r == count_images(page_content.text)
           report == IF ~args.detailed
                        THEN <<CountLine(ImageLabel, r[1])>>
                        ELSE display_statistics(r[1], r[2], ImageLabel)
       IN  /\ count' = r[1]
           /\ details' = r[2]
           /\ out' = out \o report
           /\ trace' = trace \o <<"extract", "report">>
           /\ pc' = IF args.stats /\ r[2] # <<>> THEN "head" ELSE "save"
    /\ branch' = Append(branch, ImageLabel)
    /\ idx' = 1
    /\ UNCHANGED <<argv, args, response, page_content, headLog, http, file,
                   file0, sv, calls, snap>>

\* the for loop with a failed HEAD request ending the loop
HeadImage_Break ==
    /\ pc = "head"
    /\ idx <= Len(details)
    /\ \E o \in HeadOutcomes :
          LET img == details[idx]
              img_url == urljoin(args.url, img)
          IN  /\ http' = Append(http, [method |-> "HEAD", url |-> img_url])
              /\ headLog' = Append(headLog, o)
              /\ out' = Append(out,
                    CASE o = "length" -> ImageSizeLine(img_url, "1024")
                      [] o = "no_length" -> ImageSizeLine(img_url, "unknown")
                      [] o = "error" -> ImageErrorLine(img, "RequestException"))
              /\ pc' = IF idx = Len(details) \/ o = "error" THEN "save" ELSE "head"
    /\ trace' = Append(trace, "stats")
    /\ idx' = idx + 1
    /\ UNCHANGED <<argv, args, response, page_content, count, details, branch,
                   file, file0, sv, calls, snap>>

\* main, lines 130-136: one iteration of the for loop over the images
HeadImage ==
    /\ pc = "head"
    /\ idx <= Len(details)
    /\ \E o \in HeadOutcomes :
          LET img == details[idx]
              img_url == urljoin(args.url, img)
          IN  /\ http' = Append(http, [method |-> "HEAD", url |-> img_url])
              /\ headLog' = Append(headLog, o)
              /\ out' = Append(out,
                    CASE o = "length" -> ImageSizeLine(img_url, "1024")
                      [] o = "no_length" -> ImageSizeLine(img_url, "unknown")
                      [] o = "error" -> ImageErrorLine(img, "RequestException"))
    /\ trace' = Append(trace, "stats")
    /\ idx' = idx + 1
    /\ pc' = IF idx = Len(details) THEN "save" ELSE "head"
    /\ UNCHANGED <<argv, args, response, page_content, count, details, branch,
                   file, file0, sv, calls, snap>>

\* the call of save_to_file passing the details only in detailed mode
SaveCheck_DetailedOnly ==
    /\ pc = "save"
    /\ IF SaveRequested(args)
          THEN /\ sv' = [filename |-> args.save, count |-> count,
                         details |-> IF args.detailed THEN details ELSE <<>>,
                         type_ |-> TypeLabel(args),
                         i |-> 0, open |-> FALSE, ret |-> "final"]
               /\ calls' = calls + 1
               /\ pc' = "save_open"
          ELSE /\ pc' = "final"
               /\ UNCHANGED <<sv, calls>>
    /\ UNCHANGED <<argv, args, response, page_content, count, details, branch,
                   idx, headLog, out, http, trace, file, file0, snap>>

\* main, lines 138-139: the call of save_to_file
SaveCheck ==
    /\ pc = "save"
    /\ IF SaveRequested(args)
          THEN /\ sv' = [filename |-> args.save, count |-> count,
                         details |-> details, type_ |-> TypeLabel(args),
                         i |-> 0, open |-> FALSE, ret |-> "final"]
               /\ calls' = calls + 1
               /\ pc' = "save_open"
          ELSE /\ pc' = "final"
               /\ UNCHANGED <<sv, calls>>
    /\ UNCHANGED <<argv, args, response, page_content, count, details, branch,
                   idx, headLog, out, http, trace, file, file0, snap>>

\* main, lines 141-143: the sample after processing
SampleFinal ==
    /\ pc = "final"
    /\ IF args.ressources
          THEN /\ out' = out \o <<LabelLine("After processing the page:")>>
                             \o print_system_resources
               /\ trace' = Append(trace, "sample")
          ELSE UNCHANGED <<out, trace>>
    /\ pc' = "done"
    /\ UNCHANGED <<argv, args, response, page_content, count, details, branch,
                   idx, headLog, http, file, file0, sv, calls, snap>>

--------------------------------------------------------------------------
(* save_to_file, statement by statement *)

\* the file opened in append mode
SaveOpen_Append ==
    /\ pc = "save_open"
    /\ file' = [exists |-> TRUE, content |-> file.content]
    /\ sv' = [sv EXCEPT !.open = TRUE]
    /\ trace' = Append(trace, "save")
    /\ pc' = "save_count"
    /\ UNCHANGED <<argv, args, response, page_content, count, details, branch,
                   idx, headLog, out, http, file0, calls, snap>>

\* line 59: open(filename, 'w') truncates or creates the file
SaveOpen ==
    /\ pc = "save_open"
    /\ file' = [exists |-> TRUE, content |-> <<>>]
    /\ sv' = [sv EXCEPT !.open = TRUE]
    /\ trace' = Append(trace, "save")
    /\ pc' = "save_count"
    /\ UNCHANGED <<argv, args, response, page_content, count, details, branch,
                   idx, headLog, out, http, file0, calls, snap>>

\* lines 60-61: the count line and the test of details
SaveCount ==
    /\ pc = "save_count"
    /\ file' = [file EXCEPT !.content = Append(@, CountLine(sv.type_, sv.count))]
    /\ pc' = IF sv.details # <<>> THEN "save_header" ELSE "save_close"
    /\ UNCHANGED <<argv, args, response, page_content, count, details, branch,
                   idx, headLog, out, http, trace, file0, sv, calls, snap>>

\* line 62: the Details header
SaveHeader ==
    /\ pc = "save_header"
    /\ file' = [file EXCEPT !.content = Append(@, DetailsHeader)]
    /\ sv' = [sv EXCEPT !.i = 1]
    /\ pc' = "save_entry"
    /\ UNCHANGED <<argv, args, response, page_content, count, details, branch,
                   idx, headLog, out, http, trace, file0, calls, snap>>

\* lines 63-64: one entry of the enumerate loop
SaveEntry ==
    /\ pc = "save_entry"
    /\ sv.i <= Len(sv.details)
    /\ file' = [file EXCEPT !.content = Append(@, EntryLine(sv.i, sv.details[sv.i]))]
    /\ sv' = [sv EXCEPT !.i = @ + 1]
    /\ pc' = IF sv.i = Len(sv.details) THEN "save_close" ELSE "save_entry"
    /\ UNCHANGED <<argv, args, response, page_content, count, details, branch,
                   idx, headLog, out, http, trace, file0, calls, snap>>

\* the end of the with block closes the file
SaveClose ==
    /\ pc = "save_close"
    /\ sv' = [sv EXCEPT !.open = FALSE]
    /\ pc' = "save_print"
    /\ UNCHANGED <<argv, args, response, page_content, count, details, branch,
                   idx, headLog, out, http, trace, file, file0, calls, snap>>

\* line 65: the confirmation, then the return to the caller
SavePrint ==
    /\ pc = "save_print"
    /\ out' = Append(out, SavedLine(sv.filename))
    /\ pc' = sv.ret
    /\ UNCHANGED <<argv, args, response, page_content, count, details, branch,
                   idx, headLog, http, trace, file, file0, sv, calls, snap>>

Next ==
    \/ CheckMode
    \/ SampleBefore
    \/ FetchPage
    \/ SampleAfter
    \/ LinkBranch
    \/ PictureBranch
    \/ HeadImage
    \/ SaveCheck
    \/ SaveOpen
    \/ SaveCount
    \/ SaveHeader
    \/ SaveEntry
    \/ SaveClose
    \/ SavePrint
    \/ SampleFinal

Spec == Init /\ [][Next]_vars

--------------------------------------------------------------------------
(* count_links and count_images on their own, for every document *)

Idle ==
    /\ argv = [url |-> PageUrl, link |-> FALSE, picture |-> FALSE,
               save |-> "None", detailed |-> FALSE, stats |-> FALSE,
               ressources |-> FALSE]
    /\ args = argv
    /\ response = NoResponse
    /\ count = 0
    /\ details = <<>>
    /\ branch = <<>>
    /\ idx = 0
    /\ headLog = <<>>
    /\ out = <<>>
    /\ http = <<>>
    /\ trace = <<>>
    /\ snap = <<>>

InitExtract ==
    /\ Idle
    /\ pc = "parsed"
    /\ page_content \in [none : {FALSE}, text : Docs]
    /\ file = NoFile
    /\ file0 = file
    /\ sv = NoFrame
    /\ calls = 0

CallCountLinks ==
    /\ pc = "parsed"
    /\ LET r == count_links(page_content.text)
       IN  /\ count' = r[1]
           /\ details' = r[2]
    /\ branch' = Append(branch, LinkLabel)
    /\ pc' = "counted"
    /\ UNCHANGED <<argv, args, response, page_content, idx, headLog, out, http,
                   trace, file, file0, sv, calls, snap>>

CallCountImages ==
    /\ pc = "parsed"
    /\ LET r == count_images(page_content.text)
       IN  /\ count' = r[1]
           /\ details' = r[2]
    /\ branch' = Append(branch, ImageLabel)
    /\ pc' = "counted"
    /\ UNCHANGED <<argv, args, response, page_content, idx, headLog, out, http,
                   trace, file, file0, sv, calls, snap>>

NextExtract == CallCountLinks \/ CallCountImages

SpecExtract == InitExtract /\ [][NextExtract]_vars

--------------------------------------------------------------------------
(* save_to_file on its own, called MaxCalls times with the same arguments *)

InitSave ==
    /\ Idle
    /\ pc = "save_open"
    /\ page_content = [none |-> TRUE, text |-> <<>>]
    /\ file \in {NoFile, [exists |-> TRUE, content |-> StaleContent]}
    /\ file0 = file
    /\ sv \in [filename : {"out.txt"}, count : 0..MaxCount,
               details : DetailLists, type_ : Labels, i : {0},
               open : {FALSE}, ret : {"returned"}]
    /\ calls = 1

SaveAgain ==
    /\ pc = "returned"
    /\ calls < MaxCalls
    /\ snap' = file.content
    /\ sv' = [sv EXCEPT !.i = 0]
    /\ calls' = calls + 1
    /\ pc' = "save_open"
    /\ UNCHANGED <<argv, args, response, page_content, count, details, branch,
                   idx, headLog, out, http, trace, file, file0>>

NextSave ==
    \/ SaveOpen
    \/ SaveCount
    \/ SaveHeader
    \/ SaveEntry
    \/ SaveClose
    \/ SavePrint
    \/ SaveAgain

SpecSave == InitSave /\ [][NextSave]_vars

--------------------------------------------------------------------------
(* Vocabulary of the properties *)

SavePcs ==
    {"save_open", "save_count", "save_header", "save_entry", "save_close",
     "save_print"}

NumKind(seq, kinds) == Cardinality({i \in DOMAIN seq : seq[i].kind \in kinds})

NumStep(ev) == Cardinality({i \in DOMAIN trace : trace[i] = ev})

NumHead == Cardinality({i \in DOMAIN http : http[i].method = "HEAD"})

Conflict == argv.link /\ argv.picture

FetchOK == response.kind = "response" /\ response.status < 400

FetchFailed ==
    response.kind = "error" \/ (response.kind = "response" /\ response.status >= 400)

\* the mode the supplied flags select
ModeOf(av) == IF av.picture /\ ~av.link THEN ImageLabel ELSE LinkLabel

\* the count/detail report found on standard output
Report(o) ==
    SelectSeq(o, LAMBDA c : c.kind \in {"count", "details_header", "entry"})

\* c is the count line, then, only for a non-empty list, the header and the
\* 1-indexed entries in list order
IsSavedText(c, type_, cnt, dl) ==
    /\ Len(c) = 1 + (IF dl = <<>> THEN 0 ELSE 1 + Len(dl))
    /\ c[1].kind = "count" /\ c[1].type = type_ /\ c[1].n = cnt
    /\ dl # <<>> =>
          /\ c[2].kind = "details_header"
          /\ \A k \in 1..Len(dl) :
                c[2 + k].kind = "entry" /\ c[2 + k].n = k /\ c[2 + k].text = dl[k]

\* the positions of doc that hold a tag carrying attr
Carriers(doc, tag, attr) ==
    {i \in DOMAIN doc : doc[i].tag = tag /\ doc[i].attr = attr}

\* list is the values at the carriers of doc, in document order
IsExtraction(doc, tag, attr, cnt, list) ==
    LET P == Carriers(doc, tag, attr)
    IN  /\ cnt = Len(list)
        /\ Len(list) = Cardinality(P)
        /\ \A i \in P : list[Cardinality({j \in P : j <= i})] = doc[i].val

\* the samples of a run, one per point when --ressources is set
Samples == IF argv.ressources THEN <<"sample">> ELSE <<>>

\* the steps of a complete forward pass over the extraction in details
ForwardPass ==
    LET nstats == IF ~argv.stats THEN 0
                  ELSE IF ModeOf(argv) = LinkLabel THEN 1 ELSE Len(details)
    IN  Samples \o <<"GET">> \o Samples \o <<"extract", "report">>
            \o [k \in 1..nstats |-> "stats"]
            \o (IF SaveRequested(argv) THEN <<"save">> ELSE <<>>)
            \o Samples

--------------------------------------------------------------------------
(* Properties *)

\* C1: when both --link and --picture are supplied, whatever the other
\* flags, the run prints the conflict message and ends with no HTTP request,
\* no resource sample and no file written.
C1_ConflictNoIO ==
    Conflict =>
        /\ pc \in {"start", "done"}
        /\ http = <<>>
        /\ trace = <<>>
        /\ calls = 0
        /\ file = file0
        /\ pc = "done" => out = <<ConflictLine>>

C1_Witness ==
    /\ pc = "done"
    /\ Conflict
    /\ argv.stats /\ argv.detailed /\ argv.ressources /\ argv.save = "out.txt"
    /\ out = <<ConflictLine>>

\* C2: when the page GET fails (network error or error status), the error
\* line with the failure reason is printed and the run ends: no extraction,
\* no summary, detail or stats line, no HEAD request, the save file
\* untouched and no resource sample after the GET.
C2_FetchFailureStops ==
    FetchFailed =>
        /\ pc = "done"
        /\ out # <<>>
        /\ out[Len(out)].kind = "fetch_error"
        /\ out[Len(out)].text =
              (IF response.kind = "error" THEN "ConnectionError"
                                          ELSE "404 Client Error")
        /\ NumKind(out, {"fetch_error"}) = 1
        /\ NumKind(out, {"count", "details_header", "entry", "unique_links",
                         "image_size", "image_error", "saved"}) = 0
        /\ http = <<[method |-> "GET", url |-> argv.url]>>
        /\ trace = Samples \o <<"GET">>
        /\ branch = <<>>
        /\ calls = 0
        /\ file = file0

C2_Witness ==
    /\ pc = "done"
    /\ response.kind = "response" /\ response.status = 404
    /\ argv.picture /\ argv.stats /\ argv.detailed /\ argv.ressources
    /\ argv.save = "out.txt"
    /\ file = file0

\* C3: main takes the early exit after fetch_page only when the GET failed;
\* a successful GET with an empty body goes on to the extraction and the
\* report with count 0, and to the save file when --save is given.
C3_EmptyBodyContinues ==
    (pc = "done" /\ ~Conflict) =>
        /\ branch = <<>> => FetchFailed
        /\ (FetchOK /\ response.body = <<>>) =>
              /\ Report(out) = <<CountLine(ModeOf(argv), 0)>>
              /\ SaveRequested(argv) =>
                    file = [exists |-> TRUE,
                            content |-> <<CountLine(ModeOf(argv), 0)>>]

\* C4: for every document, count_links / count_images return the values of
\* the target attribute of the elements of the target tag that carry it, in
\* document order, duplicates kept, attribute-less elements skipped, and the
\* count is the length of that list.
C4_ExtractionExact ==
    pc = "counted" =>
        /\ branch = <<LinkLabel>> =>
              IsExtraction(page_content.text, "a", "href", count, details)
        /\ branch = <<ImageLabel>> =>
              IsExtraction(page_content.text, "img", "src", count, details)

C4_Witness ==
    /\ pc = "counted"
    /\ branch = <<LinkLabel>>
    /\ Len(page_content.text) = 2
    /\ page_content.text[1] = [tag |-> "a", attr |-> NoAttr, val |-> ""]
    /\ page_content.text[2] = [tag |-> "a", attr |-> "href", val |-> "/b"]
    /\ count = 1
    /\ details = <<"/b">>

C6_FileSameAsStdout ==
    (pc \in {"final", "done"} /\ calls = 1 /\ SaveRequested(argv) /\ FetchOK) =>
        file.content = Report(out)

\* C6 as amended: whenever a run writes the file of --save, the file starts
\* with the count line printed to standard output and holds the Details
\* header and the 1-indexed entries exactly when the extraction list is
\* non-empty, whether or not --detailed is set; so it equals the report on
\* standard output exactly when --detailed is set or the list is empty.
C6_FileHoldsFullReport ==
    /\ (pc \in {"final", "done"} /\ calls = 1) =>
          /\ file.exists
          /\ Report(out) # <<>>
          /\ file.content # <<>>
          /\ file.content[1] = Report(out)[1]
          /\ IsSavedText(file.content, ModeOf(argv), Len(details), details)
          /\ NumKind(file.content, {"details_header"}) = 1 <=> details # <<>>
          /\ NumKind(out, {"details_header"}) = 1 <=>
                (argv.detailed /\ details # <<>>)
          /\ file.content = Report(out) <=> (argv.detailed \/ details = <<>>)
    /\ (pc \in {"final", "done"} /\ branch # <<>> /\ SaveRequested(argv)) =>
          calls = 1

C6_Witness ==
    /\ pc = "done"
    /\ calls = 1
    /\ ~argv.detailed
    /\ Len(details) = 2
    /\ NumKind(file.content, {"entry"}) = 2
    /\ NumKind(out, {"entry"}) = 0

\* C7: save_to_file leaves the file holding the count line followed, only
\* for a non-empty details list, by the Details header and one 1-indexed
\* entry per detail in list order; previous content is discarded, so a
\* second save of the same result leaves the same content; the
\* confirmation is printed only after the write has completed.
C7_SaveExact ==
    /\ pc = "returned" =>
          /\ file.exists
          /\ IsSavedText(file.content, sv.type_, sv.count, sv.details)
          /\ NumKind(file.content, {"stale"}) = 0
          /\ NumKind(out, {"saved"}) = calls
          /\ out[Len(out)] = SavedLine(sv.filename)
    /\ (pc = "returned" /\ calls >= 2) => file.content = snap
    /\ NumKind(out, {"saved"}) <= calls
    /\ NumKind(out, {"saved"}) = calls =>
          /\ ~sv.open
          /\ IsSavedText(file.content, sv.type_, sv.count, sv.details)

C7_Witness ==
    /\ pc = "returned"
    /\ calls = 2
    /\ file0.exists
    /\ sv.type_ = ImageLabel
    /\ sv.count = 2
    /\ sv.details = <<"/a", "/b">>
    /\ file.content = snap

\* C8: in every run whose fetch succeeds the summary line is printed
\* exactly once, and the Details header and the entries are printed iff
\* --detailed is set and the extraction list is non-empty.
C8_SummaryOnce ==
    (pc = "done" /\ FetchOK) =>
        /\ NumKind(out, {"count"}) = 1
        /\ NumKind(out, {"details_header"}) =
              (IF argv.detailed /\ details # <<>> THEN 1 ELSE 0)
        /\ NumKind(out, {"entry"}) =
              (IF argv.detailed THEN Len(details) ELSE 0)

\* C9: in image mode with --stats, whatever the outcomes of the HEAD
\* requests, one HEAD request is issued per src in document order, each src
\* gets exactly one output line (size, 'unknown' size or error), a failed
\* request does not stop the loop, and the run goes on to the save and to
\* the final sample.
C9_PerImageFailure ==
    (branch = <<ImageLabel>> /\ argv.stats) =>
        LET heads == SelectSeq(http, LAMBDA q : q.method = "HEAD")
            lines == SelectSeq(out,
                        LAMBDA c : c.kind \in {"image_size", "image_error"})
            n == IF pc = "head" THEN idx - 1 ELSE Len(details)
        IN  /\ Len(heads) = n
            /\ Len(lines) = n
            /\ Len(headLog) = n
            /\ pc = "head" => idx <= Len(details)
            /\ \A k \in 1..n :
                  /\ heads[k].url.origin = argv.url.origin
                  /\ heads[k].url.path = details[k]
                  /\ headLog[k] = "error" =>
                        (lines[k].kind = "image_error" /\ lines[k].text = details[k])
                  /\ headLog[k] = "no_length" =>
                        (lines[k].kind = "image_size" /\ lines[k].text = "unknown"
                            /\ lines[k].url = heads[k].url)
                  /\ headLog[k] = "length" =>
                        (lines[k].kind = "image_size" /\ lines[k].text # "unknown"
                            /\ lines[k].url = heads[k].url)
            /\ pc = "done" =>
                  /\ SaveRequested(argv) => (calls = 1 /\ NumStep("save") = 1)
                  /\ argv.ressources =>
                        (NumStep("sample") = 3 /\ trace[Len(trace)] = "sample")

C9_Witness ==
    /\ pc = "done"
    /\ branch = <<ImageLabel>>
    /\ argv.stats /\ argv.ressources /\ argv.save = "out.txt"
    /\ headLog = <<"error", "no_length">>
    /\ NumHead = 2
    /\ calls = 1

\* C10: every run is one forward pass: sample, GET, sample, extraction,
\* report, stats, save, sample, nothing repeated or reordered; with
\* --ressources and a successful fetch exactly three samples are taken,
\* without --ressources none, and the GET is issued exactly once.
C10_ForwardPass ==
    (pc = "done" /\ ~Conflict) =>
        /\ NumStep("GET") = 1
        /\ ~argv.ressources => NumStep("sample") = 0
        /\ FetchOK => trace = ForwardPass
        /\ (FetchOK /\ argv.ressources) => NumStep("sample") = 3
        /\ FetchFailed => trace = Samples \o <<"GET">>

====
